---- MODULE Spec2Model ----
(***************************************************************************)
(* A model of src/dashboard_fertilizantes.py: the cached CSV loader        *)
(* (encoding probe, column renaming, numeric coercion), the sidebar        *)
(* filters, and the efficiency derivation with its ranked view.            *)
(*                                                                         *)
(* Text is modelled as sequences of one-character strings, so that         *)
(* stripping and substring matching are computed, not assumed.             *)
(***************************************************************************)
EXTENDS Integers, Sequences, FiniteSets, TLC

VARIABLES
    rn_pc,      \* position of the renaming harness: "raw", "once", "twice"
    rn_raw,     \* a raw header name (sequence of characters)
    rn_out,     \* the name after one application of the rename rules
    rn_again,   \* the name after a second application
    file,       \* Fertilizante.csv: whether it exists, its header and rows
    pc,         \* position of the script run
    tried,      \* local of load_and_clean_data: the read attempts so far
    ldf,        \* local `df` of load_and_clean_data (may be unbound)
    cache,      \* what st.cache_data holds for load_and_clean_data
    df,         \* module-level `df`
    sel,        \* the three multiselect values of this run
    filtered_df, \* module-level `filtered_df`
    df_chart,   \* module-level `df_chart`
    shown,      \* messages rendered in this run
    ran,        \* steps of the page body executed in this run
    err,        \* the exception that ended this run, if any
    divisors    \* denominators the efficiency lambda divided by in this run

rn_vars == <<rn_pc, rn_raw, rn_out, rn_again>>

run_vars == <<file, pc, tried, ldf, cache, df, sel, filtered_df, df_chart,
              shown, ran, err, divisors>>

vars == <<rn_pc, rn_raw, rn_out, rn_again, file, pc, tried, ldf, cache, df, sel,
          filtered_df, df_chart, shown, ran, err, divisors>>

\* A table: column names in order, and rows carrying their index label.
NoTable == [cols |-> <<>>, rows |-> <<>>]

\* A name that is not bound to a table.
Unset  == [kind |-> "unset", t |-> NoTable]
IsNone == [kind |-> "None",  t |-> NoTable]
Frame(t) == [kind |-> "table", t |-> t]

NoSelection == [Categoria |-> {}, Fabricante |-> {}, Tecnologia |-> {}]

(***************************************************************************)
(* Text helpers (Python str.strip and the `in` substring test)             *)
(***************************************************************************)

\* Python's str.strip() removes leading and trailing whitespace; the model's
\* whitespace characters are the space and the tab.
IsSpace(c) == c \in {" ", "\t"}

RECURSIVE LStrip(_)
LStrip(s) ==
    IF s = <<>> THEN <<>>
    ELSE IF IsSpace(Head(s)) THEN LStrip(Tail(s)) ELSE s

RECURSIVE RStrip(_)
RStrip(s) ==
    IF s = <<>> THEN <<>>
    ELSE IF IsSpace(s[Len(s)]) THEN RStrip(SubSeq(s, 1, Len(s) - 1)) ELSE s

Strip(s) == RStrip(LStrip(s))

\* `pat in s` for Python strings: pat occurs as a contiguous substring of s.
Has(pat, s) ==
    \E i \in 1..(Len(s) - Len(pat) + 1) : SubSeq(s, i, i + Len(pat) - 1) = pat

(***************************************************************************)
(* The literals of the rename chain, lines 38-44                           *)
(***************************************************************************)
pN1    == <<"N", " ", "(", "%", ")">>
pN2    == <<"N", "_", "%">>
pP1    == <<"P", " ", "(", "%", ")">>
pP2    == <<"P", "_", "%">>
pK1    == <<"K", " ", "(", "%", ")">>
pK2    == <<"K", "_", "%">>
pPre   == <<"P", "r", "e">>
pEst   == <<"E", "s", "t">>
pTotal == <<"T", "o", "t", "a", "l">>
pHa    == <<"H", "a">>
pSaca  == <<"S", "a", "c", "a">>
pKg    == <<"K", "g">>

cN     == <<"N">>
cP     == <<"P">>
cK     == <<"K">>
cPreco == <<"P", "r", "e", "c", "o", "_", "S", "a", "c", "a">>
cCusto == <<"C", "u", "s", "t", "o", "_", "p", "o", "r", "_", "H", "a">>
cSacaKg == <<"S", "a", "c", "a", "_", "K", "g">>

\* The conditions of the if/elif chain, one per line of the source.
MatchN(s)      == Has(pN1, s) \/ Has(pN2, s)
MatchP(s)      == Has(pP1, s) \/ Has(pP2, s)
MatchK(s)      == Has(pK1, s) \/ Has(pK2, s)
MatchPreco(s)  == Has(pPre, s) /\ Has(pEst, s)
MatchCusto(s)  == Has(pTotal, s) /\ Has(pHa, s)

\* A slip of `and` into `or` in the last rule.
MatchSacaKgOr(s) == Has(pSaca, s) \/ Has(pKg, s)

MatchSacaKg(s) == Has(pSaca, s) /\ Has(pKg, s)

\* The chain with the P rule tested before the N rule.
RenamePFirst(col) ==
    LET new_col == Strip(col) IN
    IF MatchP(new_col) THEN cP
    ELSE IF MatchN(new_col) THEN cN
    ELSE IF MatchK(new_col) THEN cK
    ELSE IF MatchPreco(new_col) THEN cPreco
    ELSE IF MatchCusto(new_col) THEN cCusto
    ELSE IF MatchSacaKg(new_col) THEN cSacaKg
    ELSE new_col

\* The body of the loop over df.columns: strip, then the first branch taken.
Rename(col) ==
    LET new_col == Strip(col) IN
    IF MatchN(new_col) THEN cN
    ELSE IF MatchP(new_col) THEN cP
    ELSE IF MatchK(new_col) THEN cK
    ELSE IF MatchPreco(new_col) THEN cPreco
    ELSE IF MatchCusto(new_col) THEN cCusto
    ELSE IF MatchSacaKg(new_col) THEN cSacaKg
    ELSE new_col

(***************************************************************************)
(* Inputs of the renaming harness                                          *)
(***************************************************************************)
MaxFrag == 3

Fragments ==
    { <<" ">>, <<"\t">>, pN2, pP1, pPre, pEst, pTotal, pHa, pSaca, pKg }

RECURSIVE Concat(_)
Concat(ss) == IF ss = <<>> THEN <<>> ELSE Head(ss) \o Concat(Tail(ss))

FragNames ==
    { Concat(ss) : ss \in UNION { [1..n -> Fragments] : n \in 1..MaxFrag } }

\* Headers of the kind the source comments and the documentation mention,
\* and names on which several rules match at once.
ExampleNames ==
    { <<"N", " ", "(", "%", ")">>,
      <<"C", "u", "s", "t", "o", " ", "T", "o", "t", "a", "l", " ", "/", " ", "H", "a">>,
      <<" ", "P", "r", "e", "c", "o", " ", "E", "s", "t", ".", " ", "S", "a", "c", "a", " ">>,
      <<"S", "a", "c", "a", " ", "(", "K", "g", ")">>,
      <<"P", "r", "o", "d", "u", "t", "o">>,
      pPre \o pEst \o pTotal \o pHa,
      pPre \o pEst \o pSaca \o pKg,
      pTotal \o pHa \o pSaca \o pKg,
      pK1 \o pPre \o pEst,
      <<"x">> \o pK2 \o pN1,
      pP2 \o pK2,
      cN, cP, cK, cPreco, cCusto, cSacaKg }

RnInit ==
    /\ rn_pc = "raw"
    /\ rn_raw \in FragNames \cup ExampleNames
    /\ rn_out = <<>>
    /\ rn_again = <<>>
    /\ file = [exists |-> FALSE, cols |-> <<>>, rows |-> <<>>]
    /\ pc = "idle"
    /\ tried = <<>>
    /\ ldf = [bound |-> FALSE, t |-> NoTable, enc |-> "none"]
    /\ cache = Unset
    /\ df = Unset
    /\ sel = NoSelection
    /\ filtered_df = Unset
    /\ df_chart = Unset
    /\ shown = {}
    /\ ran = {}
    /\ err = "none"
    /\ divisors = {}

RnApply ==
    /\ rn_pc = "raw"
    /\ rn_out' = Rename(rn_raw)
    /\ rn_pc' = "once"
    /\ UNCHANGED <<rn_raw, rn_again>>
    /\ UNCHANGED run_vars

RnAgain ==
    /\ rn_pc = "once"
    /\ rn_again' = Rename(rn_out)
    /\ rn_pc' = "twice"
    /\ UNCHANGED <<rn_raw, rn_out>>
    /\ UNCHANGED run_vars

RnNext == RnApply \/ RnAgain

SpecRename == RnInit /\ [][RnNext]_vars

(***************************************************************************)
(* The documented rule table, written independently of the chain above:    *)
(* rule i matches when, for one of its alternatives, every listed          *)
(* substring occurs in the trimmed name.                                   *)
(***************************************************************************)
RuleTable ==
    << [alts |-> {{pN1}, {pN2}},   name |-> cN],
       [alts |-> {{pP1}, {pP2}},   name |-> cP],
       [alts |-> {{pK1}, {pK2}},   name |-> cK],
       [alts |-> {{pPre, pEst}},   name |-> cPreco],
       [alts |-> {{pTotal, pHa}},  name |-> cCusto],
       [alts |-> {{pSaca, pKg}},   name |-> cSacaKg] >>

RuleHits(s) ==
    { i \in 1..Len(RuleTable) :
        \E alt \in RuleTable[i].alts : \A p \in alt : Has(p, s) }

Trimmed(s) ==
    IF \A i \in 1..Len(s) : IsSpace(s[i]) THEN <<>>
    ELSE LET lo == CHOOSE i \in 1..Len(s) :
                      ~IsSpace(s[i]) /\ \A j \in 1..(i - 1) : IsSpace(s[j])
             hi == CHOOSE i \in 1..Len(s) :
                      ~IsSpace(s[i]) /\ \A j \in (i + 1)..Len(s) : IsSpace(s[j])
         IN SubSeq(s, lo, hi)

FirstMatchName(s) ==
    LET t == Trimmed(s)
        hits == RuleHits(t)
    IN IF hits = {} THEN t
       ELSE RuleTable[CHOOSE i \in hits : \A j \in hits : i <= j].name

\* C3: the canonical name of a raw column name is the name of the first rule
\* of the ordered table that matches the trimmed name, also when several
\* rules match; with no matching rule it is the trimmed name itself.
C3_FirstMatchWins ==
    rn_pc # "raw" => rn_out = FirstMatchName(rn_raw)

\* A name with surrounding whitespace on which at least two rules match has
\* been renamed.
C3_Witness ==
    /\ rn_pc = "once"
    /\ Cardinality(RuleHits(Trimmed(rn_raw))) >= 2
    /\ Trimmed(rn_raw) # rn_raw

\* C7: renaming is idempotent: applying the rules to a name they produced
\* (a canonical name or an unmatched trimmed name) returns that same name.
C7_RenameIdempotent ==
    rn_pc = "twice" => rn_again = rn_out

\* A canonical name that still matches a rule has been renamed again.
C7_Witness ==
    /\ rn_pc = "twice"
    /\ rn_out = cSacaKg
    /\ rn_raw # cSacaKg

(***************************************************************************)
(* Numbers.  A float64 is modelled exactly: a reduced fraction, a signed    *)
(* infinity, or NaN.  Rounding and overflow of finite values are not       *)
(* modelled.  Every cell, text or number, has the same record shape.       *)
(***************************************************************************)
Abs(x) == IF x < 0 THEN -x ELSE x

Sign(x) == IF x < 0 THEN -1 ELSE IF x > 0 THEN 1 ELSE 0

RECURSIVE Gcd(_, _)
Gcd(a, b) == IF b = 0 THEN a ELSE Gcd(b, a % b)

\* The fraction n/d (d # 0) in lowest terms with a positive denominator.
Fin(n, d) ==
    LET g == Gcd(Abs(n), Abs(d))
    IN [k |-> "fin", s |-> <<>>, n |-> (Sign(d) * n) \div g, d |-> Abs(d) \div g]

Inf(sg) == [k |-> "inf", s |-> <<>>, n |-> sg, d |-> 1]
NaN     == [k |-> "nan", s |-> <<>>, n |-> 0, d |-> 1]
Text(s) == [k |-> "str", s |-> s, n |-> 0, d |-> 1]
Zero    == Fin(0, 1)

IsNumber(c) == c.k \in {"fin", "inf", "nan"}

\* IEEE-754 multiplication.
FMul(a, b) ==
    IF a.k = "nan" \/ b.k = "nan" THEN NaN
    ELSE IF a.k = "inf" \/ b.k = "inf"
         THEN IF a.n = 0 \/ b.n = 0 THEN NaN ELSE Inf(Sign(a.n) * Sign(b.n))
    ELSE Fin(a.n * b.n, a.d * b.d)

\* IEEE-754 division.  A zero divisor, which the guard of line 169 keeps
\* away from the division, is given the IEEE result.
FDiv(a, b) ==
    IF a.k = "nan" \/ b.k = "nan" THEN NaN
    ELSE IF a.k = "inf"
         THEN IF b.k = "inf" THEN NaN
              ELSE Inf(Sign(a.n) * (IF b.n < 0 THEN -1 ELSE 1))
    ELSE IF b.k = "inf" THEN Zero
    ELSE IF b.n = 0 THEN (IF a.n = 0 THEN NaN ELSE Inf(Sign(a.n)))
    ELSE Fin(a.n * b.d, a.d * b.n)

\* a > 0 ; every comparison with NaN is false.
FGtZero(a) == a.k \in {"fin", "inf"} /\ a.n > 0

\* a <= b ; every comparison with NaN is false.
FLe(a, b) ==
    /\ a.k # "nan"
    /\ b.k # "nan"
    /\ IF a.k = "inf" THEN a.n < 0 \/ (b.k = "inf" /\ b.n > 0)
       ELSE IF b.k = "inf" THEN b.n > 0
       ELSE a.n * b.d <= b.n * a.d

(***************************************************************************)
(* pandas.read_csv and pandas.to_numeric on the cell texts of the model    *)
(***************************************************************************)
Digits == {"0", "1", "2", "3", "4", "5", "6", "7", "8", "9"}

DigitVal(c) ==
    CASE c = "0" -> 0 [] c = "1" -> 1 [] c = "2" -> 2 [] c = "3" -> 3
      [] c = "4" -> 4 [] c = "5" -> 5 [] c = "6" -> 6 [] c = "7" -> 7
      [] c = "8" -> 8 [] c = "9" -> 9

RECURSIVE NatVal(_)
NatVal(s) ==
    IF s = <<>> THEN 0
    ELSE 10 * NatVal(SubSeq(s, 1, Len(s) - 1)) + DigitVal(s[Len(s)])

IsDigits(s) == s # <<>> /\ \A i \in 1..Len(s) : s[i] \in Digits

tInf == <<"i", "n", "f">>

\* The float a text parses to: an integer literal, "inf" or "-inf"; NaN is
\* what errors='coerce' gives for any other text, the empty cell included.
ParseNumber(s) ==
    LET neg  == s # <<>> /\ Head(s) = "-"
        body == IF neg THEN Tail(s) ELSE s
    IN IF IsDigits(body) THEN Fin((IF neg THEN -1 ELSE 1) * NatVal(body), 1)
       ELSE IF body = tInf THEN Inf(IF neg THEN -1 ELSE 1)
       ELSE NaN

ParsesAsNumber(s) == s = <<>> \/ ParseNumber(s) # NaN

\* read_csv infers each column's type: a column whose every cell is a number
\* or empty is numeric (empty cells are NaN); any other column keeps its
\* texts, with NaN for the empty cells.
InferCell(s, numeric) ==
    IF s = <<>> THEN NaN
    ELSE IF numeric THEN ParseNumber(s) ELSE Text(s)

\* With skip_blank_lines (the default) a line with no character is not a row:
\* in a one-column file, a row whose only cell is empty.
RECURSIVE DataLines(_)
DataLines(lines) ==
    IF lines = <<>> THEN <<>>
    ELSE IF Head(lines) = << <<>> >> THEN DataLines(Tail(lines))
    ELSE <<Head(lines)>> \o DataLines(Tail(lines))

ReadCsv(f) ==
    LET lines == DataLines(f.rows)
        numeric(j) == \A i \in 1..Len(lines) : ParsesAsNumber(lines[i][j])
    IN [cols |-> f.cols,
        rows |-> [i \in 1..Len(lines) |->
                    [idx |-> i,
                     cells |-> [j \in 1..Len(f.cols) |->
                                  InferCell(lines[i][j], numeric(j))]]]]

\* pd.to_numeric(errors='coerce') on one element.
ToNumeric(c) == IF c.k = "str" THEN ParseNumber(c.s) ELSE c

\* Series.fillna(0) on one element.
FillNa(c) == IF c.k = "nan" THEN Zero ELSE c

(***************************************************************************)
(* Tables                                                                  *)
(***************************************************************************)
Positions(t, name) == { j \in 1..Len(t.cols) : t.cols[j] = name }

\* `name in df.columns`
HasCol(t, name) == Positions(t, name) # {}

\* The cell of a row under a column label that occurs once.
Cell(t, row, name) == row.cells[CHOOSE j \in Positions(t, name) : TRUE]

\* df.rename(columns=clean_cols), clean_cols built by the loop of lines 34-46.
RenameColumns(t) ==
    [t EXCEPT !.cols = [j \in 1..Len(t.cols) |-> Rename(t.cols[j])]]

\* The columns the loop of line 52 visits, in its order.
NumericCols == <<cN, cP, cK, cPreco, cCusto>>

\* df[col] is a Series only when the label occurs once; with a repeated
\* label it is a DataFrame, which pd.to_numeric rejects with a TypeError.
CoercionRaises(t) ==
    \E k \in 1..Len(NumericCols) : Cardinality(Positions(t, NumericCols[k])) > 1

\* The right-hand side of line 55 on one element.
CoerceCell(c) == FillNa(ToNumeric(c))

\* The loop of lines 52-55 on a table whose numeric labels occur once each.
Coerce(t) ==
    LET isNum(j) == \E k \in 1..Len(NumericCols) : t.cols[j] = NumericCols[k]
    IN [t EXCEPT !.rows =
           [i \in 1..Len(t.rows) |->
              [t.rows[i] EXCEPT !.cells =
                 [j \in 1..Len(t.cols) |->
                    IF isNum(j) THEN CoerceCell(t.rows[i].cells[j])
                    ELSE t.rows[i].cells[j]]]]]

(***************************************************************************)
(* Column labels used by the page body                                     *)
(***************************************************************************)
hProduto    == <<"P", "r", "o", "d", "u", "t", "o">>
hCategoria  == <<"C", "a", "t", "e", "g", "o", "r", "i", "a">>
hFabricante == <<"F", "a", "b", "r", "i", "c", "a", "n", "t", "e">>
hTecnologia == <<"T", "e", "c", "n", "o", "l", "o", "g", "i", "a">>
hKG         == <<"K", "G", "_", "p", "o", "r", "_", "H", "a">>
hUnidades   == <<"U", "n", "i", "d", "a", "d", "e", "s", "_", "N", "_", "H", "a">>
hCustoUn    == <<"C", "u", "s", "t", "o", "_", "P", "o", "r", "_", "U", "n", "i", "d",
                 "a", "d", "e", "_", "N">>

\* Raw headers as they appear in a source file.
rCusto == <<"C", "u", "s", "t", "o", " ", "T", "o", "t", "a", "l", " ", "/", " ", "H", "a">>
rPreco == <<"P", "r", "e", "c", "o", " ", "E", "s", "t">>
rN2    == <<" ", "N", "_", "%", " ">>

(***************************************************************************)
(* Source files of the model.  read_csv makes repeated headers distinct,   *)
(* so the headers of a file are pairwise different.                        *)
(***************************************************************************)
MaxLoadCols == 2
MaxRows == 2

InjectiveSeqs(S, n) ==
    { q \in [1..n -> S] : \A i, j \in 1..n : i # j => q[i] # q[j] }

\* Files that exercise the loader: headers that rename to the same label or
\* to none, and cells that are numbers, infinities, text or empty.
LoadHeaders == {pN1, rN2, rPreco, rCusto, hProduto}

LoadCells ==
    { <<"4", "5">>, <<"-", "i", "n", "f">>, <<"a", "b", "c">>, <<>> }

FilesLoad ==
    UNION { { [exists |-> TRUE, cols |-> h, rows |-> <<r>>] :
                h \in InjectiveSeqs(LoadHeaders, n), r \in [1..n -> LoadCells] } :
            n \in 1..MaxLoadCols }

ProdNames == << <<"p", "1">>, <<"p", "2">>, <<"p", "3">>, <<"p", "4">> >>

\* The values a dimension column takes in the files of the model.
DimValues(dim) ==
    IF dim = <<"T", "e", "c", "n", "o", "l", "o", "g", "i", "a">>
    THEN { <<"A">> } ELSE { <<"A">>, <<"B">> }

\* The sequence of the members of `wanted`, in the order of `order`.
RECURSIVE Pick(_, _)
Pick(order, wanted) ==
    IF order = <<>> THEN <<>>
    ELSE IF Head(order) \in wanted THEN <<Head(order)>> \o Pick(Tail(order), wanted)
    ELSE Pick(Tail(order), wanted)

\* Files that exercise the filters: a product column and any of the three
\* dimension columns.
FilesFilter ==
    UNION { UNION { { [exists |-> TRUE,
                       cols |-> <<hProduto>> \o dims,
                       rows |-> [i \in 1..n |-> <<ProdNames[i]>> \o v[i]]] :
                      v \in [1..n -> { w \in [1..Len(dims) -> {<<"A">>, <<"B">>}] :
                                         \A j \in 1..Len(dims) :
                                            w[j] \in DimValues(dims[j]) }] } :
                    n \in 1..MaxRows } :
            dims \in { Pick(<<hCategoria, hFabricante, hTecnologia>>, w) :
                         w \in SUBSET {hCategoria, hFabricante, hTecnologia} } }

NTexts     == { <<"0">>, <<"5", "0">>, tInf }
CustoTexts == { <<"1", "0", "0">>, <<"2", "0", "0">>, tInf }
KGTexts    == { <<"1", "0", "0">>, <<>> }

\* Files that exercise the efficiency derivation.
FilesEfficiency ==
    UNION { { [exists |-> TRUE,
               cols |-> <<hProduto, pN1, rCusto, hKG>>,
               rows |-> [i \in 1..n |-> <<ProdNames[i], v[i][1], v[i][2], v[i][3]>>]] :
              v \in [1..n -> NTexts \X CustoTexts \X KGTexts] } :
            n \in 1..MaxRows }

\* Files with every column the page uses, finite numbers and one dimension.
FilesFull ==
    UNION { { [exists |-> TRUE,
               cols |-> <<hProduto, hCategoria, pN1, rCusto, hKG>>,
               rows |-> [i \in 1..n |->
                           <<ProdNames[i], v[i][1], <<"5", "0">>, v[i][2],
                             <<"1", "0", "0">> >>]] :
              v \in [1..n -> {<<"A">>, <<"B">>} \X { <<"1", "0", "0">>, <<"2", "0", "0">> }] } :
            n \in 1..MaxRows }

MissingFile == [exists |-> FALSE, cols |-> <<>>, rows |-> <<>>]

Files == {MissingFile} \cup FilesLoad \cup FilesFilter \cup FilesEfficiency \cup FilesFull

(***************************************************************************)
(* load_and_clean_data                                                     *)
(***************************************************************************)
Encodings == <<"utf-8", "utf-8-sig", "latin1", "cp1252">>

Unbound == [bound |-> FALSE, t |-> NoTable, enc |-> "none"]

Init ==
    /\ rn_pc = "idle"
    /\ rn_raw = <<>>
    /\ rn_out = <<>>
    /\ rn_again = <<>>
    /\ file \in Files
    /\ pc = "start"
    /\ tried = <<>>
    /\ ldf = Unbound
    /\ cache = Unset
    /\ df = Unset
    /\ sel = NoSelection
    /\ filtered_df = Unset
    /\ df_chart = Unset
    /\ shown = {}
    /\ ran = {}
    /\ err = "none"
    /\ divisors = {}

\* `not os.path.exists(DATA_FILE)`
FileMissing(f) == ~f.exists

\* Lines 17-18: the existence test; a missing file returns None at once, and
\* st.cache_data stores the returned value.
CheckFile ==
    /\ pc = "start"
    /\ IF FileMissing(file)
       THEN /\ df' = IsNone
            /\ cache' = IsNone
            /\ pc' = "loaded"
       ELSE /\ pc' = "read"
            /\ UNCHANGED <<df, cache>>
    /\ UNCHANGED <<file, tried, ldf, sel, filtered_df, df_chart, shown, ran, err,
                   divisors, rn_vars>>

\* Where the loop of line 22 goes after attempt i: `break` on success,
\* `continue` on failure, and it falls through after the last encoding.
AfterAttempt(ok, i) ==
    IF ok \/ i = Len(Encodings) THEN "normalize" ELSE "read"

\* Lines 22-27: one iteration.  Whether read_csv raises under an encoding
\* (a decode error, an empty file, a parser error, an I/O error: the bare
\* `except` swallows them all) is the environment's choice.
TryEncoding ==
    /\ pc = "read"
    /\ LET i == Len(tried) + 1 IN
       \E ok \in BOOLEAN :
          /\ tried' = Append(tried, [enc |-> Encodings[i], ok |-> ok])
          /\ ldf' = IF ok THEN [bound |-> TRUE, t |-> ReadCsv(file), enc |-> Encodings[i]]
                    ELSE ldf
          /\ pc' = AfterAttempt(ok, i)
    /\ UNCHANGED <<file, cache, df, sel, filtered_df, df_chart, shown, ran, err,
                   divisors, rn_vars>>

\* Lines 33-57: rename, coerce, return.  With `df` unbound, line 34 raises
\* UnboundLocalError; with a repeated numeric label, line 55 raises TypeError.
\* An exception ends the run and nothing is cached.
Normalize ==
    /\ pc = "normalize"
    /\ IF ~ldf.bound
       THEN /\ err' = "UnboundLocalError"
            /\ pc' = "crashed"
            /\ UNCHANGED <<df, cache>>
       ELSE LET renamed == RenameColumns(ldf.t) IN
            IF CoercionRaises(renamed)
            THEN /\ err' = "TypeError"
                 /\ pc' = "crashed"
                 /\ UNCHANGED <<df, cache>>
            ELSE /\ df' = Frame(Coerce(renamed))
                 /\ cache' = Frame(Coerce(renamed))
                 /\ pc' = "loaded"
                 /\ err' = err
    /\ tried' = <<>>
    /\ ldf' = Unbound
    /\ UNCHANGED <<file, sel, filtered_df, df_chart, shown, ran, divisors, rn_vars>>

(***************************************************************************)
(* The page body                                                           *)
(***************************************************************************)

\* st.stop() left out: the script goes on to the filters.
AfterNotFoundGoesOn == "filters"

\* Line 67: st.stop() ends the script run.
AfterNotFound == "stopped"

\* Lines 65-67: the missing-file check.
NoneCheck ==
    /\ pc = "loaded"
    /\ IF df = IsNone
       THEN /\ shown' = shown \cup {"not_found"}
            /\ pc' = AfterNotFound
       ELSE /\ pc' = "filters"
            /\ shown' = shown
    /\ UNCHANGED <<file, tried, ldf, cache, df, sel, filtered_df, df_chart, ran, err,
                   divisors, rn_vars>>

\* df[name].unique() if the column exists, else [] (lines 74, 77, 80).
Options(t, name) ==
    IF HasCol(t, name) THEN { Cell(t, t.rows[i], name) : i \in 1..Len(t.rows) } ELSE {}

\* A condition without the test of the selection: an empty selection then
\* matches no row.
DimActiveNoEmptyTest(t, name, chosen) == HasCol(t, name)

\* The condition of lines 86, 88, 90: the column exists and the selection is
\* not empty.
DimActive(t, name, chosen) == HasCol(t, name) /\ chosen # {}

\* `mask &= df[name].isin(chosen)` under its condition; the mask is the set
\* of row positions that are True.
MaskStep(t, mask, name, chosen) ==
    IF DimActive(t, name, chosen)
    THEN { i \in mask : Cell(t, t.rows[i], name) \in chosen }
    ELSE mask

\* Lines 85-91.
Mask(t, s) ==
    LET m0 == 1..Len(t.rows)
        m1 == MaskStep(t, m0, hCategoria, s.Categoria)
        m2 == MaskStep(t, m1, hFabricante, s.Fabricante)
    IN MaskStep(t, m2, hTecnologia, s.Tecnologia)

RECURSIVE KeepRows(_, _)
KeepRows(rows, keep) ==
    IF rows = <<>> THEN <<>>
    ELSE IF keep[1] THEN <<Head(rows)>> \o KeepRows(Tail(rows), Tail(keep))
    ELSE KeepRows(Tail(rows), Tail(keep))

\* df[mask]: a new table with the rows whose mask entry is True, in order,
\* each keeping its index label.
BoolIndex(t, mask) ==
    [cols |-> t.cols,
     rows |-> KeepRows(t.rows, [i \in 1..Len(t.rows) |-> i \in mask])]

\* Lines 74-94: the widgets return any subset of their options (all of them
\* by default); the mask is built and filtered_df is bound to df[mask].
ApplyFilters ==
    /\ pc = "filters"
    /\ \E c \in SUBSET Options(df.t, hCategoria),
          f \in SUBSET Options(df.t, hFabricante),
          g \in SUBSET Options(df.t, hTecnologia) :
          LET s == [Categoria |-> c, Fabricante |-> f, Tecnologia |-> g] IN
          /\ sel' = s
          /\ filtered_df' = Frame(BoolIndex(df.t, Mask(df.t, s)))
    /\ ran' = ran \cup {"filters"}
    /\ pc' = "charts"
    /\ UNCHANGED <<file, tried, ldf, cache, df, df_chart, shown, err, divisors, rn_vars>>

HasAll(t, names) == \A nm \in names : HasCol(t, nm)

\* Lines 99-153: the two charts or their warnings, and the scorecard.
RenderCharts ==
    /\ pc = "charts"
    /\ shown' = shown
          \cup (IF HasAll(filtered_df.t, {cN, cP, cK, hProduto})
                THEN {"chart_npk"} ELSE {"warn_npk"})
          \cup (IF HasAll(filtered_df.t, {cCusto, hProduto})
                THEN {"chart_cost"} ELSE {"warn_cost"})
          \cup {"scorecard"}
    /\ ran' = ran \cup {"charts"}
    /\ pc' = "efficiency"
    /\ UNCHANGED <<file, tried, ldf, cache, df, sel, filtered_df, df_chart, err,
                   divisors, rn_vars>>

Hundred == Fin(100, 1)

\* Line 163: KG_por_Ha * (N / 100).
UnitsOf(t, row) == FMul(Cell(t, row, hKG), FDiv(Cell(t, row, cN), Hundred))

\* A guard that lets a zero denominator through.
LambdaGuardNonNegative(u) == u.k \in {"fin", "inf"} /\ u.n >= 0

\* The condition of the lambda of line 169.
LambdaGuard(u) == FGtZero(u)

\* Line 169: the cost per unit of one row.
CostPerUnit(custo, u) == IF LambdaGuard(u) THEN FDiv(custo, u) ELSE Zero

\* The row filter of line 174.
ChartKeep(u) == FGtZero(u)

\* Lines 163-171 on a table: the two derived columns appended.
WithDerived(t) ==
    [cols |-> t.cols \o <<hUnidades, hCustoUn>>,
     rows |-> [i \in 1..Len(t.rows) |->
                 [t.rows[i] EXCEPT !.cells =
                    @ \o << UnitsOf(t, t.rows[i]),
                            CostPerUnit(Cell(t, t.rows[i], cCusto),
                                        UnitsOf(t, t.rows[i])) >>]]]

\* The denominators line 169 divides by.
Denominators(t) ==
    { UnitsOf(t, t.rows[i]) :
        i \in { j \in 1..Len(t.rows) : LambdaGuard(UnitsOf(t, t.rows[j])) } }

RowSet(rows) == { rows[i] : i \in 1..Len(rows) }

\* sort_values(by) with its defaults (kind='quicksort', na_position='last'):
\* the rows whose key is a number come first in non-decreasing key order,
\* rows of equal key in an order the algorithm does not fix; the rows whose
\* key is NaN follow in their original order.
SortOutcomes(t, by) ==
    LET n == Len(t.rows)
        key(r) == Cell(t, r, by)
        isNan(r) == key(r).k = "nan"
    IN { q \in [1..n -> RowSet(t.rows)] :
           /\ \A i, j \in 1..n : i # j => q[i] # q[j]
           /\ \A i \in 1..(n - 1) :
                \/ /\ ~isNan(q[i])
                   /\ ~isNan(q[i + 1])
                   /\ FLe(key(q[i]), key(q[i + 1]))
                \/ /\ ~isNan(q[i])
                   /\ isNan(q[i + 1])
                \/ /\ isNan(q[i])
                   /\ isNan(q[i + 1])
                   /\ q[i].idx < q[i + 1].idx }

\* The assignments of lines 163 and 168 target df itself.
DeriveTargetIsDf == "df"

\* The table lines 163 and 168 assign into.
DeriveTarget == "filtered_df"

EfficiencyColumns == {cN, cCusto, hKG, hProduto}

\* Lines 158-198: the derived columns, the ranked view and its chart.
DeriveEfficiency ==
    /\ pc = "efficiency"
    /\ HasAll(filtered_df.t, EfficiencyColumns)
    /\ LET derived == WithDerived(filtered_df.t)
           kept == BoolIndex(derived,
                     { i \in 1..Len(derived.rows) :
                         ChartKeep(Cell(derived, derived.rows[i], hUnidades)) })
       IN /\ divisors' = Denominators(filtered_df.t)
          /\ IF DeriveTarget = "filtered_df"
             THEN /\ filtered_df' = Frame(derived)
                  /\ df' = df
             ELSE /\ df' = Frame(WithDerived(df.t))
                  /\ filtered_df' = filtered_df
          /\ \E q \in SortOutcomes(kept, hCustoUn) :
                df_chart' = Frame([cols |-> kept.cols, rows |-> q])
    /\ shown' = shown \cup {"chart_efficiency"}
    /\ ran' = ran \cup {"efficiency"}
    /\ pc' = "done"
    /\ UNCHANGED <<file, tried, ldf, cache, sel, err, rn_vars>>

\* Lines 200-201: a required column is absent and the derivation is skipped.
SkipEfficiency ==
    /\ pc = "efficiency"
    /\ ~HasAll(filtered_df.t, EfficiencyColumns)
    /\ shown' = shown \cup {"warn_efficiency"}
    /\ pc' = "done"
    /\ UNCHANGED <<file, tried, ldf, cache, df, sel, filtered_df, df_chart, ran, err,
                   divisors, rn_vars>>

\* A user interaction: the script runs again from the top.  st.cache_data
\* hands back what load_and_clean_data returned, if it returned; after an
\* exception nothing is cached and the loader runs again.
Rerun ==
    /\ pc \in {"done", "stopped", "crashed"}
    /\ IF cache = Unset
       THEN /\ pc' = "start"
            /\ df' = Unset
       ELSE /\ pc' = "loaded"
            /\ df' = cache
    /\ sel' = NoSelection
    /\ filtered_df' = Unset
    /\ df_chart' = Unset
    /\ shown' = {}
    /\ ran' = {}
    /\ err' = "none"
    /\ divisors' = {}
    /\ UNCHANGED <<file, tried, ldf, cache, rn_vars>>

Next ==
    \/ CheckFile
    \/ TryEncoding
    \/ Normalize
    \/ NoneCheck
    \/ ApplyFilters
    \/ RenderCharts
    \/ DeriveEfficiency
    \/ SkipEfficiency
    \/ Rerun

Spec == Init /\ [][Next]_vars

(***************************************************************************)
(* Properties                                                              *)
(***************************************************************************)
Rows(fr) == RowSet(fr.t.rows)

Idxs(fr) == { r.idx : r \in Rows(fr) }

PresentNumericCols(t) ==
    { NumericCols[k] : k \in { m \in 1..Len(NumericCols) : HasCol(t, NumericCols[m]) } }

\* C1: whatever the headers and cells of the source file, the coercion raises
\* no error and every cell of N, P, K, Preco_Saca, Custo_por_Ha in the
\* returned table is a finite number.
C1_CoercedCellsFinite ==
    /\ err # "TypeError"
    /\ df.kind = "table" =>
         \A nm \in PresentNumericCols(df.t) : \A r \in Rows(df) :
            Cell(df.t, r, nm).k = "fin"

\* What the coercion does guarantee when it returns: every such cell is a
\* float (finite or infinite), never text and never NaN.
CoercedCellsAreFloats ==
    df.kind = "table" =>
       \A nm \in PresentNumericCols(df.t) : \A r \in Rows(df) :
          Cell(df.t, r, nm).k \in {"fin", "inf"}

\* C2: with the data file missing, the loader returns None without any read
\* attempt and without raising; the page shows the not-found message and
\* stops, and no filter, chart or efficiency step runs.
C2_MissingFileStops ==
    ~file.exists =>
       /\ tried = <<>>
       /\ ~ldf.bound
       /\ err = "none"
       /\ pc \in {"start", "loaded", "stopped"}
       /\ pc # "start" => df = IsNone
       /\ pc = "stopped" => "not_found" \in shown
       /\ ran = {}
       /\ filtered_df = Unset
       /\ df_chart = Unset

\* The run on a missing file has ended at st.stop() with the message shown.
C2_Witness ==
    /\ ~file.exists
    /\ pc = "stopped"
    /\ df = IsNone
    /\ shown = {"not_found"}

EfficiencyDone == pc = "done" /\ "efficiency" \in ran

IsFin(c) == c.k = "fin"

\* C4: the derivation never divides by zero: a row with KG_por_Ha * N = 0
\* gets Custo_Por_Unidade_N = 0 and is not in the ranked result; every ranked
\* row has Unidades_N_Ha = KG_por_Ha * (N/100) > 0 and
\* Custo_Por_Unidade_N = Custo_por_Ha / Unidades_N_Ha.
C4_NoDivisionByZero ==
    EfficiencyDone =>
       LET t == filtered_df.t
           c == df_chart.t
       IN /\ \A dv \in divisors : dv # Zero /\ FGtZero(dv)
          /\ \A r \in Rows(filtered_df) :
                FMul(Cell(t, r, hKG), Cell(t, r, cN)) = Zero =>
                   /\ Cell(t, r, hCustoUn) = Zero
                   /\ r.idx \notin Idxs(df_chart)
          /\ \A r \in Rows(df_chart) :
                LET kg    == Cell(c, r, hKG)
                    n     == Cell(c, r, cN)
                    custo == Cell(c, r, cCusto)
                    u     == Cell(c, r, hUnidades)
                    cpu   == Cell(c, r, hCustoUn)
                IN /\ FGtZero(u)
                   /\ IF IsFin(kg) /\ IsFin(n)
                      THEN IsFin(u) /\ u.n * 100 * kg.d * n.d = kg.n * n.n * u.d
                      ELSE u = FMul(kg, FDiv(n, Hundred))
                   /\ IF IsFin(custo) /\ IsFin(u)
                      THEN IsFin(cpu) /\ cpu.n * u.n * custo.d = custo.n * cpu.d * u.d
                      ELSE cpu = FDiv(custo, u)

\* A derivation has run on a table with a row whose KG_por_Ha * N is 0 and a
\* row that is ranked.
C4_Witness ==
    /\ EfficiencyDone
    /\ \E r \in Rows(filtered_df) :
          FMul(Cell(filtered_df.t, r, hKG), Cell(filtered_df.t, r, cN)) = Zero
    /\ \E r \in Rows(df_chart) : Cell(df_chart.t, r, hCustoUn) = Fin(4, 1)

\* C5: the ranked result is in ascending order of Custo_Por_Unidade_N (each
\* adjacent pair a, b has a <= b) and holds exactly the rows of the filtered
\* table with Unidades_N_Ha > 0, each once.
C5_RankedAscending ==
    EfficiencyDone =>
       LET q == df_chart.t.rows IN
       /\ \A i \in 1..(Len(q) - 1) :
             FLe(Cell(df_chart.t, q[i], hCustoUn), Cell(df_chart.t, q[i + 1], hCustoUn))
       /\ \A i, j \in 1..Len(q) : i # j => q[i].idx # q[j].idx
       /\ RowSet(q) = { r \in Rows(filtered_df) :
                          FGtZero(Cell(filtered_df.t, r, hUnidades)) }

\* What holds of the ranked result whatever the cells: it holds exactly the
\* rows with Unidades_N_Ha > 0, each once, and adjacent rows whose keys are
\* both numbers are in ascending order.
RankedIsPermutation ==
    EfficiencyDone =>
       LET q == df_chart.t.rows IN
       /\ \A i \in 1..(Len(q) - 1) :
             \/ Cell(df_chart.t, q[i + 1], hCustoUn).k = "nan"
             \/ FLe(Cell(df_chart.t, q[i], hCustoUn), Cell(df_chart.t, q[i + 1], hCustoUn))
       /\ \A i, j \in 1..Len(q) : i # j => q[i].idx # q[j].idx
       /\ RowSet(q) = { r \in Rows(filtered_df) :
                          FGtZero(Cell(filtered_df.t, r, hUnidades)) }

\* C6: the sort is stable: rows of equal Custo_Por_Unidade_N are ranked in
\* their relative order in the filtered table (the source row order).
C6_StableSort ==
    EfficiencyDone =>
       LET q == df_chart.t.rows IN
       \A i, j \in 1..Len(q) :
          (/\ i < j
           /\ FLe(Cell(df_chart.t, q[i], hCustoUn), Cell(df_chart.t, q[j], hCustoUn))
           /\ FLe(Cell(df_chart.t, q[j], hCustoUn), Cell(df_chart.t, q[i], hCustoUn)))
          => q[i].idx < q[j].idx

\* C8: the encodings are tried in the fixed order, each only after every
\* earlier one failed and none after a success; when the loop ends, `df` is
\* the table read by the first encoding that did not fail, and the load
\* goes on to return a table.
C8_FirstWorkingEncoding ==
    /\ \A i \in 1..Len(tried) : tried[i].enc = Encodings[i]
    /\ \A i \in 1..(Len(tried) - 1) : ~tried[i].ok
    /\ pc = "read" => \A i \in 1..Len(tried) : ~tried[i].ok
    /\ pc = "normalize" =>
          /\ ldf.bound
          /\ tried[Len(tried)].ok
          /\ ldf.enc = tried[Len(tried)].enc
    /\ err # "UnboundLocalError"

\* The part of C8 that holds: the order of the attempts, and that a table
\* bound at the end of the loop is the one read by the only success.
EncodingOrder ==
    /\ \A i \in 1..Len(tried) : tried[i].enc = Encodings[i]
    /\ \A i \in 1..(Len(tried) - 1) : ~tried[i].ok
    /\ pc = "read" => \A i \in 1..Len(tried) : ~tried[i].ok
    /\ (pc = "normalize" /\ ldf.bound) =>
          /\ tried[Len(tried)].ok
          /\ ldf.enc = tried[Len(tried)].enc
          /\ ldf.t = ReadCsv(file)

\* What load_and_clean_data returns for the file, when it returns a table.
Loaded == Coerce(RenameColumns(ReadCsv(file)))

\* C9: in every run, after any number of reruns, the loaded table is the one
\* the loader returned, cell for cell; the derived columns exist only on
\* the filtered copy of the run that derived them.
C9_LoadedTableUnchanged ==
    /\ df.kind = "table" =>
          /\ df = cache
          /\ df.t = Loaded
          /\ ~HasCol(df.t, hUnidades)
          /\ ~HasCol(df.t, hCustoUn)
    /\ cache.kind = "table" => cache.t = Loaded
    /\ pc \in {"start", "loaded", "filters"} => filtered_df = Unset /\ df_chart = Unset
    /\ EfficiencyDone =>
          /\ HasCol(filtered_df.t, hUnidades)
          /\ HasCol(filtered_df.t, hCustoUn)

\* A run has filtered some rows out and derived the columns on the copy.
C9_Witness ==
    /\ EfficiencyDone
    /\ Len(filtered_df.t.rows) < Len(df.t.rows)
    /\ Len(filtered_df.t.rows) >= 1
    /\ HasCol(filtered_df.t, hCustoUn)
    /\ df = cache

Dimensions ==
    { [col |-> hCategoria,  chosen |-> sel.Categoria],
      [col |-> hFabricante, chosen |-> sel.Fabricante],
      [col |-> hTecnologia, chosen |-> sel.Tecnologia] }

\* C10: a row of the loaded table is in the filtered table exactly when, for
\* every dimension whose column exists and whose selection is not empty, its
\* value is selected; an absent column or an empty selection restricts
\* nothing, so selecting nothing keeps the rows that selecting everything
\* keeps; the kept rows are in source order.
C10_FilterSemantics ==
    pc \in {"charts", "efficiency"} =>
       LET t == df.t
           q == filtered_df.t.rows
       IN /\ filtered_df.t.cols = t.cols
          /\ RowSet(q) =
               { r \in Rows(df) :
                   \A dm \in Dimensions :
                      (HasCol(t, dm.col) /\ dm.chosen # {}) =>
                         Cell(t, r, dm.col) \in dm.chosen }
          /\ \A i, j \in 1..Len(q) : i < j => q[i].idx < q[j].idx
          /\ (\A dm \in Dimensions :
                 dm.chosen = {} \/ dm.chosen = Options(t, dm.col))
             => filtered_df.t = t

\* A run where one existing dimension has an empty selection, another has a
\* proper selection, and some but not all rows are kept.
C10_Witness ==
    /\ pc = "charts"
    /\ HasCol(df.t, hCategoria)
    /\ sel.Categoria = {}
    /\ sel.Fabricante # {}
    /\ sel.Fabricante # Options(df.t, hFabricante)
    /\ ~HasCol(df.t, hTecnologia)
    /\ Len(filtered_df.t.rows) = 1
    /\ Len(df.t.rows) = 2

====
